---- MODULE Spec2Model ----
(***************************************************************************)
(* Hallucination detection core of the Neuron repository                   *)
(* (hallucination_detection/hallucination_detector.py): the uncertainty    *)
(* quantifier, the self-consistency checker, the fact verification agent   *)
(* and the detector that fuses them.                                       *)
(*                                                                         *)
(* Python values are tagged records [kind, val]; a text is the sequence of *)
(* its characters; a float is an exact rational [n, d], numerator over     *)
(* denominator, in lowest terms.                                           *)
(***************************************************************************)
EXTENDS Integers, Sequences, FiniteSets, TLC

\* ------------------------------------------------------------------ bounds

\* Largest consistency_samples a configuration of the model chooses.
MaxSamples == 2
\* Largest number of sentences of a response of the model.
MaxSentences == 2
\* Largest number of variants in a list handed to a component directly.
MaxVariants == 4

\* ------------------------------------------------------------------ floats

Abs(n) == IF n < 0 THEN -n ELSE n

\* the greatest element of a non-empty set of integers
Max(S) == CHOOSE x \in S : \A y \in S : y <= x
Min(S) == CHOOSE x \in S : \A y \in S : x <= y

\* the greatest common divisor of a >= 0 and b > 0
Gcd(a, b) ==
    IF a = 0 THEN b
    ELSE Max({g \in 1..a : a % g = 0 /\ b % g = 0})

\* The rational n/d (d > 0) in lowest terms.
Rat(n, d) ==
    LET g == Gcd(Abs(n), d) IN [n |-> n \div g, d |-> d \div g]

RMul(a, b) == Rat(a.n * b.n, a.d * b.d)
RAdd(a, b) == Rat(a.n * b.d + b.n * a.d, a.d * b.d)
RSub(a, b) == Rat(a.n * b.d - b.n * a.d, a.d * b.d)
RDiv(a, k) == Rat(a.n, a.d * k)
RLt(a, b) == a.n * b.d < b.n * a.d
RLeq(a, b) == a.n * b.d <= b.n * a.d
RMin(a, b) == IF RLt(a, b) THEN a ELSE b

RZero == [n |-> 0, d |-> 1]
ROne == [n |-> 1, d |-> 1]

\* the sum of the first k elements of xs
RECURSIVE RSumTo(_, _)
RSumTo(xs, k) == IF k = 0 THEN RZero ELSE RAdd(RSumTo(xs, k - 1), xs[k])

\* sum(xs)
RSum(xs) == RSumTo(xs, Len(xs))

\* np.mean of a non-empty list
Mean(xs) == RDiv(RSum(xs), Len(xs))

\* ------------------------------------------------------------------ values

PyNone == [kind |-> "none", val |-> <<>>]
PyStr(t) == [kind |-> "str", val |-> t]
PyInt(n) == [kind |-> "int", val |-> <<n>>]
\* a dict is the sequence of its <<key, value>> items, in insertion order
PyDict(items) == [kind |-> "dict", val |-> items]

IsStr(v) == v.kind = "str"
IsDict(v) == v.kind = "dict"

\* ------------------------------------------------------------------ texts

Chars(s) == [i \in 1..Len(s) |-> SubSeq(s, i, i)]

UpperCase == Chars("ABCDEFGHIJKLMNOPQRSTUVWXYZ")
LowerCase == Chars("abcdefghijklmnopqrstuvwxyz")

LowerChar(c) ==
    IF \E i \in 1..Len(UpperCase) : UpperCase[i] = c
    THEN LowerCase[CHOOSE i \in 1..Len(UpperCase) : UpperCase[i] = c]
    ELSE c

\* str.lower()
Lower(t) == [i \in 1..Len(t) |-> LowerChar(t[i])]

\* p in t, for texts
IsSub(p, t) ==
    \E i \in 0..(Len(t) - Len(p)) : SubSeq(t, i + 1, i + Len(p)) = p

\* t.startswith(p)
StartsWith(t, p) == Len(p) <= Len(t) /\ SubSeq(t, 1, Len(p)) = p

Whitespace == {" ", "\t", "\n", "\r"}

\* first index >= i of t whose character is (inSet) or is not (~inSet) in S;
\* Len(t) + 1 when there is none
Scan(t, i, S, inSet) ==
    LET hits == {j \in i..Len(t) : (t[j] \in S) = inSet}
    IN  IF hits = {} THEN Len(t) + 1 ELSE Min(hits)

\* last index <= i of t whose character is not whitespace; 0 when none
ScanBack(t, i) ==
    LET hits == {j \in 1..i : t[j] \notin Whitespace}
    IN  IF hits = {} THEN 0 ELSE Max(hits)

\* str.strip()
Strip(t) ==
    LET a == Scan(t, 1, Whitespace, FALSE)
        b == ScanBack(t, Len(t))
    IN  IF a > b THEN <<>> ELSE SubSeq(t, a, b)

\* the indices 1..n, in increasing order
UpTo(n) == [i \in 1..n |-> i]

\* str.split(): the maximal runs of non-whitespace characters, in order
Split(t) ==
    LET starts == SelectSeq(UpTo(Len(t)),
                    LAMBDA i : /\ t[i] \notin Whitespace
                               /\ (i = 1 \/ t[i - 1] \in Whitespace))
    IN  [k \in 1..Len(starts) |->
            SubSeq(t, starts[k], Scan(t, starts[k], Whitespace, TRUE) - 1)]

SeqToSet(s) == {s[i] : i \in 1..Len(s)}

\* set(t.lower().split())
TokenSet(t) == SeqToSet(Split(Lower(t)))

Terminators == {".", "!", "?"}

\* re.split(r'[.!?]+', t): the pieces between maximal runs of terminators,
\* an empty piece where a run starts or ends the text
ReSplit(t) ==
    LET starts == SelectSeq(UpTo(Len(t) + 1),
                    LAMBDA i : \/ i = 1
                               \/ /\ t[i - 1] \in Terminators
                                  /\ (i = Len(t) + 1 \/ t[i] \notin Terminators))
    IN  [k \in 1..Len(starts) |->
            SubSeq(t, starts[k], Scan(t, starts[k], Terminators, TRUE) - 1)]

\* the concatenation of the first n sequences of ss
RECURSIVE ConcatTo(_, _)
ConcatTo(ss, n) == IF n = 0 THEN <<>> ELSE ConcatTo(ss, n - 1) \o ss[n]

Concat(ss) == ConcatTo(ss, Len(ss))

Digits == Chars("0123456789")

RECURSIVE NatText(_)
NatText(n) ==
    IF n < 10 THEN <<Digits[n + 1]>>
    ELSE NatText(n \div 10) \o <<Digits[(n % 10) + 1]>>

\* str(v), as an f-string formats a value
Format(v) ==
    CASE v.kind = "str" -> v.val
      [] v.kind = "int" -> NatText(v.val[1])
      [] OTHER -> Chars("None")

\* dict.get(key, default) on the items of a dict
DictGet(items, key, default) ==
    IF \E i \in 1..Len(items) : items[i][1] = key
    THEN items[CHOOSE i \in 1..Len(items) : items[i][1] = key][2]
    ELSE default

\* The outcome of a call: a returned value or a raised exception.
Returns(v) == [kind |-> "return", val |-> v]
Raises(exc) == [kind |-> "raise", val |-> exc]

\* ------------------------------------------------- UncertaintyQuantifier

\* uncertainty_markers, in the order the dict is iterated: <<level, marker>>
uncertainty_markers ==
    << <<"very_high", Chars("might")>>,     <<"very_high", Chars("maybe")>>,
       <<"very_high", Chars("perhaps")>>,   <<"very_high", Chars("possibly")>>,
       <<"very_high", Chars("uncertain")>>, <<"very_high", Chars("unclear")>>,
       <<"very_high", Chars("not sure")>>,  <<"very_high", Chars("probably not")>>,
       <<"high", Chars("likely")>>,         <<"high", Chars("probably")>>,
       <<"high", Chars("seems")>>,          <<"high", Chars("appears")>>,
       <<"high", Chars("suggests")>>,
       <<"medium", Chars("could")>>,        <<"medium", Chars("may")>>,
       <<"medium", Chars("might be")>>,
       <<"low", Chars("should")>>,          <<"low", Chars("expected")>>,
       <<"low", Chars("typically")>> >>

\* A variant of the weights whose chain of tests has no medium branch.
LevelWeightNoMedium(level) ==
    CASE level = "very_high" -> Rat(8, 10)
      [] level = "high" -> Rat(6, 10)
      [] OTHER -> Rat(2, 10)

\* the weight a matched marker of a level adds to uncertainty_score
LevelWeight(level) ==
    CASE level = "very_high" -> Rat(8, 10)
      [] level = "high" -> Rat(6, 10)
      [] level = "medium" -> Rat(4, 10)
      [] OTHER -> Rat(2, 10)

\* A variant of the aleatoric uncertainty whose value for a response without
\* markers is 1.0.
aleatoric_uncertainty_unmarked_one(response) ==
    LET response_lower == Lower(response)
        matched == SelectSeq(uncertainty_markers,
                             LAMBDA m : IsSub(m[2], response_lower))
        marker_count == Len(matched)
        uncertainty_score ==
            RSum([i \in 1..marker_count |-> LevelWeight(matched[i][1])])
    IN  IF marker_count = 0 THEN ROne
        ELSE RMin(RDiv(uncertainty_score, marker_count), ROne)

\* calculate_aleatoric_uncertainty(response), response a text
calculate_aleatoric_uncertainty(response) ==
    LET response_lower == Lower(response)
        matched == SelectSeq(uncertainty_markers,
                             LAMBDA m : IsSub(m[2], response_lower))
        marker_count == Len(matched)
        uncertainty_score ==
            RSum([i \in 1..marker_count |-> LevelWeight(matched[i][1])])
    IN  IF marker_count = 0 THEN Rat(1, 10)
        ELSE RMin(RDiv(uncertainty_score, marker_count), ROne)

\* token-set Jaccard similarity of two token sets (both non-empty)
Jaccard(a, b) == Rat(Cardinality(a \cap b), Cardinality(a \cup b))

\* _semantic_similarity(text1, text2)
semantic_similarity(text1, text2) ==
    LET tokens1 == TokenSet(text1)
        tokens2 == TokenSet(text2)
    IN  IF tokens1 = {} \/ tokens2 = {} THEN RZero
        ELSE Jaccard(tokens1, tokens2)

\* the index pairs <<i, j>>, i < j <= n, in the order of the nested loops
IndexPairs(n) ==
    Concat([i \in 1..n |-> [k \in 1..(n - i) |-> <<i, i + k>>]])

\* calculate_epistemic_uncertainty(response_variations)
calculate_epistemic_uncertainty(response_variations) ==
    IF Len(response_variations) < 2 THEN Rat(1, 2)
    ELSE LET pairs == IndexPairs(Len(response_variations))
             similarities ==
                [p \in 1..Len(pairs) |->
                    semantic_similarity(response_variations[pairs[p][1]],
                                        response_variations[pairs[p][2]])]
         IN  RSub(ROne, Mean(similarities))

\* ------------------------------------------------- SelfConsistencyChecker

\* A variant of the sampling whose samples are empty texts.
generate_sample_blank(agent_function, input_data) ==
    IF ~IsDict(input_data) THEN Raises("AttributeError")
    ELSE Returns(<<>>)

\* _generate_sample(agent_function, input_data): the placeholder text built
\* from input_data.get('query', 'unknown'); agent_function is not used.
\* input_data.get raises AttributeError when input_data is not a mapping.
generate_sample(agent_function, input_data) ==
    IF ~IsDict(input_data) THEN Raises("AttributeError")
    ELSE Returns(Chars("Sample response for: ")
                 \o Format(DictGet(input_data.val, "query",
                                   PyStr(Chars("unknown")))))

\* _calculate_agreement(samples)
calculate_agreement(samples) ==
    IF Len(samples) < 2 THEN ROne
    ELSE LET counted ==
                SelectSeq(IndexPairs(Len(samples)),
                          LAMBDA p : /\ TokenSet(samples[p[1]]) # {}
                                     /\ TokenSet(samples[p[2]]) # {})
             agreements ==
                [p \in 1..Len(counted) |->
                    Jaccard(TokenSet(samples[counted[p][1]]),
                            TokenSet(samples[counted[p][2]]))]
         IN  IF Len(counted) > 0 THEN Mean(agreements) ELSE RZero

\* np.mean of the empty list
NaN == [n |-> 0, d |-> 0]

\* np.argmax(scores): the first NaN if there is one, else the first maximum
ArgMax(scores) ==
    IF \E i \in 1..Len(scores) : scores[i] = NaN
    THEN CHOOSE i \in 1..Len(scores) :
            /\ scores[i] = NaN
            /\ \A j \in 1..(i - 1) : scores[j] # NaN
    ELSE CHOOSE i \in 1..Len(scores) :
            /\ \A j \in 1..Len(scores) : RLeq(scores[j], scores[i])
            /\ \A j \in 1..(i - 1) : RLt(scores[j], scores[i])

\* _find_consensus(samples): PyNone, or the chosen sample as a PyStr
find_consensus(samples) ==
    IF Len(samples) = 0 THEN PyNone
    ELSE LET Similarities(i) ==
                LET others ==
                        SelectSeq([j \in 1..Len(samples) |-> j],
                                  LAMBDA j : /\ TokenSet(samples[i]) # {}
                                             /\ TokenSet(samples[j]) # {})
                IN  [k \in 1..Len(others) |->
                        Jaccard(TokenSet(samples[i]), TokenSet(samples[others[k]]))]
             consensus_scores ==
                [i \in 1..Len(samples) |->
                    IF Len(Similarities(i)) = 0 THEN NaN
                    ELSE Mean(Similarities(i))]
         IN  PyStr(samples[ArgMax(consensus_scores)])

factual_indicators ==
    <<Chars("is"), Chars("are"), Chars("was"), Chars("were"),
      Chars("has"), Chars("have")>>

\* SelfConsistencyChecker._extract_claims(text)
extract_claims(text) ==
    LET pieces == ReSplit(text)
        sentences == [i \in 1..Len(pieces) |-> Strip(pieces[i])]
    IN  SelectSeq(sentences,
                  LAMBDA sentence :
                     /\ Len(sentence) > 10
                     /\ \E w \in 1..Len(factual_indicators) :
                            IsSub(factual_indicators[w], Lower(sentence)))

\* the distinct elements of a sequence, in order of first appearance
\* (the keys of claim_counts)
Distinct(s) ==
    SelectSeq([i \in 1..Len(s) |-> i],
              LAMBDA i : \A j \in 1..(i - 1) : s[j] # s[i])

Count(s, x) == Cardinality({i \in 1..Len(s) : s[i] = x})

\* _identify_divergent_points(samples)
identify_divergent_points(samples) ==
    LET all_claims == Concat([i \in 1..Len(samples) |-> extract_claims(samples[i])])
        keys == Distinct(all_claims)
        \* count < len(samples) * 0.3
        minority == SelectSeq(keys,
                        LAMBDA i : 10 * Count(all_claims, all_claims[i])
                                     < 3 * Len(samples))
        divergent == [k \in 1..Len(minority) |-> all_claims[minority[k]]]
    IN  SubSeq(divergent, 1, IF Len(divergent) < 5 THEN Len(divergent) ELSE 5)

\* The part of check_consistency after the sampling loop: the ConsistencyCheck
\* built from the samples.
ConsistencyCheck(samples, consensus_threshold) ==
    LET agreement_score == calculate_agreement(samples)
    IN  [samples |-> samples,
         agreement_score |-> agreement_score,
         consensus_response |->
            IF ~RLt(agreement_score, consensus_threshold)
            THEN find_consensus(samples) ELSE PyNone,
         divergent_points |-> identify_divergent_points(samples)]

\* ------------------------------------------------- FactVerificationAgent

\* hashlib.md5(text.encode()).hexdigest(): the digest of a text, a text itself.
\* The digest is modelled without collisions: distinct texts have distinct
\* digests, and no digest is the text it was computed from.
Md5Hex(text) == Chars("md5:") \o text

subjective_hedges == <<Chars("i think"), Chars("in my opinion"), Chars("perhaps")>>

\* _extract_factual_claims(text)
extract_factual_claims(text) ==
    LET pieces == ReSplit(text)
        sentences == [i \in 1..Len(pieces) |-> Strip(pieces[i])]
    IN  SelectSeq(sentences,
                  LAMBDA sentence :
                     /\ Len(sentence) > 15
                     /\ ~\E h \in 1..Len(subjective_hedges) :
                            StartsWith(Lower(sentence), subjective_hedges[h]))

\* A variant of the support test that folds the case of the claim only.
has_supporting_evidence_case_sensitive(claim, context) ==
    LET claim_tokens == TokenSet(claim)
    IN  \E i \in 1..Len(context.val) :
            LET value == context.val[i][2]
            IN  /\ IsStr(value)
                /\ 2 * Cardinality(claim_tokens \cap SeqToSet(Split(value.val)))
                     > Cardinality(claim_tokens)

\* _has_supporting_evidence(claim, context), context a dict
has_supporting_evidence(claim, context) ==
    LET claim_tokens == TokenSet(claim)
    IN  \E i \in 1..Len(context.val) :
            LET value == context.val[i][2]
            IN  /\ IsStr(value)
                \* overlap > len(claim_tokens) * 0.5
                /\ 2 * Cardinality(claim_tokens \cap TokenSet(value.val))
                     > Cardinality(claim_tokens)

contradiction_markers ==
    <<Chars("not"), Chars("never"), Chars("no"), Chars("false"), Chars("incorrect")>>

\* A variant of the contradiction test that looks for the first two words of
\* the claim only.
has_contradicting_evidence_two_words(claim, context) ==
    \E i \in 1..Len(context.val) :
        LET value == context.val[i][2]
        IN  /\ IsStr(value)
            /\ \E m \in 1..Len(contradiction_markers) :
                    IsSub(contradiction_markers[m], Lower(value.val))
            /\ LET words == Split(Lower(claim))
                   claim_words ==
                        SubSeq(words, 1, IF Len(words) < 2 THEN Len(words) ELSE 2)
               IN  \E w \in 1..Len(claim_words) :
                        IsSub(claim_words[w], Lower(value.val))

\* _has_contradicting_evidence(claim, context), context a dict
has_contradicting_evidence(claim, context) ==
    \E i \in 1..Len(context.val) :
        LET value == context.val[i][2]
        IN  /\ IsStr(value)
            /\ \E m \in 1..Len(contradiction_markers) :
                    IsSub(contradiction_markers[m], Lower(value.val))
            /\ LET words == Split(Lower(claim))
                   claim_words ==
                        SubSeq(words, 1, IF Len(words) < 3 THEN Len(words) ELSE 3)
               IN  \E w \in 1..Len(claim_words) :
                        IsSub(claim_words[w], Lower(value.val))

\* the dict _verify_single_claim returns
ClaimDetail(claim, status, source, confidence) ==
    [claim |-> claim, status |-> status, source |-> source,
     confidence |-> confidence]

\* A variant of the per-claim verification with a status of its own for a
\* claim the context both supports and contradicts.
verify_single_claim_disputed(knowledge_base, claim, context) ==
    LET claim_hash == Md5Hex(Lower(claim))
    IN  IF claim_hash \in DOMAIN knowledge_base
        THEN LET kb_entry == knowledge_base[claim_hash]
             IN  Returns(ClaimDetail(claim, "verified", "knowledge_base",
                            IF kb_entry.has_confidence THEN kb_entry.confidence
                            ELSE Rat(8, 10)))
        ELSE IF ~IsDict(context) THEN Raises("AttributeError")
        ELSE IF /\ has_supporting_evidence(claim, context)
                /\ has_contradicting_evidence(claim, context)
        THEN Returns(ClaimDetail(claim, "disputed", "context", Rat(5, 10)))
        ELSE IF has_supporting_evidence(claim, context)
        THEN Returns(ClaimDetail(claim, "verified", "context", Rat(7, 10)))
        ELSE IF has_contradicting_evidence(claim, context)
        THEN Returns(ClaimDetail(claim, "contradicted", "context", Rat(9, 10)))
        ELSE Returns(ClaimDetail(claim, "unverified", "none", RZero))

\* A variant of the per-claim verification that consults the context before
\* the knowledge base.
verify_single_claim_context_first(knowledge_base, claim, context) ==
    LET claim_hash == Md5Hex(Lower(claim))
    IN  IF IsDict(context) /\ has_supporting_evidence(claim, context)
        THEN Returns(ClaimDetail(claim, "verified", "context", Rat(7, 10)))
        ELSE IF IsDict(context) /\ has_contradicting_evidence(claim, context)
        THEN Returns(ClaimDetail(claim, "contradicted", "context", Rat(9, 10)))
        ELSE IF claim_hash \in DOMAIN knowledge_base
        THEN LET kb_entry == knowledge_base[claim_hash]
             IN  Returns(ClaimDetail(claim, "verified", "knowledge_base",
                            IF kb_entry.has_confidence THEN kb_entry.confidence
                            ELSE Rat(8, 10)))
        ELSE IF ~IsDict(context) THEN Raises("AttributeError")
        ELSE Returns(ClaimDetail(claim, "unverified", "none", RZero))

\* _verify_single_claim(claim, context) against knowledge_base, a function from
\* digests to entries [has_confidence, confidence]. context.items() raises
\* AttributeError when context is not a mapping.
verify_single_claim(knowledge_base, claim, context) ==
    LET claim_hash == Md5Hex(Lower(claim))
    IN  IF claim_hash \in DOMAIN knowledge_base
        THEN LET kb_entry == knowledge_base[claim_hash]
             IN  Returns(ClaimDetail(claim, "verified", "knowledge_base",
                            IF kb_entry.has_confidence THEN kb_entry.confidence
                            ELSE Rat(8, 10)))
        ELSE IF ~IsDict(context) THEN Raises("AttributeError")
        ELSE IF has_supporting_evidence(claim, context)
        THEN Returns(ClaimDetail(claim, "verified", "context", Rat(7, 10)))
        ELSE IF has_contradicting_evidence(claim, context)
        THEN Returns(ClaimDetail(claim, "contradicted", "context", Rat(9, 10)))
        ELSE Returns(ClaimDetail(claim, "unverified", "none", RZero))

CountStatus(details, status) ==
    Cardinality({i \in 1..Len(details) : details[i].status = status})

\* verify_claims(response, context), response a text
verify_claims(knowledge_base, response, context) ==
    LET claims == extract_factual_claims(response)
        results == [i \in 1..Len(claims) |->
                        verify_single_claim(knowledge_base, claims[i], context)]
    IN  IF \E i \in 1..Len(results) : results[i].kind = "raise"
        THEN results[CHOOSE i \in 1..Len(results) :
                        /\ results[i].kind = "raise"
                        /\ \A j \in 1..(i - 1) : results[j].kind # "raise"]
        ELSE LET claim_details == [i \in 1..Len(claims) |-> results[i].val]
             IN  Returns([total_claims |-> Len(claims),
                          verified_claims |-> CountStatus(claim_details, "verified"),
                          unverified_claims |->
                                Cardinality({i \in 1..Len(claim_details) :
                                    claim_details[i].status
                                        \notin {"verified", "contradicted"}}),
                          contradicted_claims |->
                                CountStatus(claim_details, "contradicted"),
                          claim_details |-> claim_details])

\* ------------------------------------------------- HallucinationDetector

\* HallucinationType values
FACTUAL_INCONSISTENCY == "factual_inconsistency"
TEMPORAL_CONFLICT == "temporal_conflict"
LOGICAL_CONTRADICTION == "logical_contradiction"
UNSUPPORTED_CLAIM == "unsupported_claim"
OVERCONFIDENCE == "overconfidence"
ATTRIBUTION_ERROR == "attribution_error"

HallucinationType ==
    {FACTUAL_INCONSISTENCY, TEMPORAL_CONFLICT, LOGICAL_CONTRADICTION,
     UNSUPPORTED_CLAIM, OVERCONFIDENCE, ATTRIBUTION_ERROR}

\* truth value of a Python object used as a condition
Truthy(v) ==
    CASE v.kind = "none" -> FALSE
      [] v.kind \in {"str", "dict"} -> Len(v.val) > 0
      [] v.kind = "int" -> v.val[1] # 0
      [] OTHER -> TRUE

\* A variant of the overconfidence rule that records the category and leaves
\* the confidence as it was.
OverconfidenceRuleKeepsScore(types, confidence, aleatoric_uncertainty) ==
    IF RLt(Rat(1, 2), aleatoric_uncertainty)
    THEN [types |-> Append(types, OVERCONFIDENCE), confidence |-> confidence]
    ELSE [types |-> types, confidence |-> confidence]

\* the rule of detect lines 464-466: the types and the confidence after it
OverconfidenceRule(types, confidence, aleatoric_uncertainty) ==
    IF RLt(Rat(1, 2), aleatoric_uncertainty)
    THEN [types |-> Append(types, OVERCONFIDENCE),
          confidence |-> RMul(confidence, RSub(ROne, aleatoric_uncertainty))]
    ELSE [types |-> types, confidence |-> confidence]

\* the rule of detect lines 478-480
InconsistencyRule(types, confidence, agreement_score, consensus_threshold) ==
    IF RLt(agreement_score, consensus_threshold)
    THEN [types |-> Append(types, FACTUAL_INCONSISTENCY),
          confidence |-> RMul(confidence, agreement_score)]
    ELSE [types |-> types, confidence |-> confidence]

\* A variant of the contradiction rule with the factor of the unsupported
\* rule, 0.7, where the rule has 0.5.
ContradictionRuleMild(types, confidence, verification) ==
    IF verification.contradicted_claims > 0
    THEN [types |-> Append(types, LOGICAL_CONTRADICTION),
          confidence |-> RMul(confidence, Rat(7, 10))]
    ELSE [types |-> types, confidence |-> confidence]

\* A variant of the contradiction rule that divides by 0.5 where the rule
\* multiplies.
ContradictionRuleDoubles(types, confidence, verification) ==
    IF verification.contradicted_claims > 0
    THEN [types |-> Append(types, LOGICAL_CONTRADICTION),
          confidence |-> RMul(confidence, Rat(2, 1))]
    ELSE [types |-> types, confidence |-> confidence]

\* the rule of detect lines 486-488
ContradictionRule(types, confidence, verification) ==
    IF verification.contradicted_claims > 0
    THEN [types |-> Append(types, LOGICAL_CONTRADICTION),
          confidence |-> RMul(confidence, Rat(5, 10))]
    ELSE [types |-> types, confidence |-> confidence]

\* A variant of the unsupported-claim rule that lowers the score without
\* recording the category.
UnsupportedRuleSilent(types, confidence, verification) ==
    IF verification.unverified_claims > verification.verified_claims
    THEN [types |-> types, confidence |-> RMul(confidence, Rat(7, 10))]
    ELSE [types |-> types, confidence |-> confidence]

\* A variant of the unsupported-claim rule that divides by 0.7 where the rule
\* multiplies.
UnsupportedRuleDivides(types, confidence, verification) ==
    IF verification.unverified_claims > verification.verified_claims
    THEN [types |-> Append(types, UNSUPPORTED_CLAIM),
          confidence |-> RMul(confidence, Rat(10, 7))]
    ELSE [types |-> types, confidence |-> confidence]

\* the rule of detect lines 490-492
UnsupportedRule(types, confidence, verification) ==
    IF verification.unverified_claims > verification.verified_claims
    THEN [types |-> Append(types, UNSUPPORTED_CLAIM),
          confidence |-> RMul(confidence, Rat(7, 10))]
    ELSE [types |-> types, confidence |-> confidence]

\* A variant of the determination that also flags a confidence equal to the
\* floor.
IsHallucinationInclusive(confidence, hallucination_threshold) ==
    RLeq(confidence, RSub(ROne, hallucination_threshold))

\* detect line 495
IsHallucination(confidence, hallucination_threshold) ==
    RLt(confidence, RSub(ROne, hallucination_threshold))

Contains(seq, x) == \E i \in 1..Len(seq) : seq[i] = x

\* _generate_reasoning: the parts of the text, each a tag and the value it
\* formats
generate_reasoning(types, evidence, confidence) ==
    IF Len(types) = 0
    THEN << <<"reliable", confidence>> >>
    ELSE << <<"detected", confidence>>, <<"patterns", types>> >>
         \o (IF /\ "aleatoric_uncertainty" \in DOMAIN evidence
                /\ RLt(Rat(1, 2), evidence["aleatoric_uncertainty"])
             THEN << <<"uncertainty", evidence["aleatoric_uncertainty"]>> >>
             ELSE <<>>)
         \o (IF /\ "fact_verification" \in DOMAIN evidence
                /\ evidence["fact_verification"].contradicted_claims > 0
             THEN << <<"contradicted",
                       evidence["fact_verification"].contradicted_claims>> >>
             ELSE <<>>)
         \o (IF /\ "fact_verification" \in DOMAIN evidence
                /\ evidence["fact_verification"].unverified_claims > 0
             THEN << <<"unsupported",
                       evidence["fact_verification"].unverified_claims>> >>
             ELSE <<>>)

NoMitigation == "Response appears reliable - no mitigation needed"

\* A variant of the suggestions without the advisory for contradictions.
mitigation_suggestions_without_contradiction(types) ==
    LET suggestions ==
            (IF Contains(types, OVERCONFIDENCE)
             THEN <<"Request agent to explicitly state uncertainty and provide confidence intervals">>
             ELSE <<>>)
            \o (IF Contains(types, UNSUPPORTED_CLAIM)
                THEN <<"Ask agent to cite specific sources or evidence for claims">>
                ELSE <<>>)
            \o (IF Contains(types, FACTUAL_INCONSISTENCY)
                THEN <<"Generate multiple responses and compare for consistency">>
                ELSE <<>>)
    IN  IF Len(suggestions) = 0 THEN <<NoMitigation>> ELSE suggestions

\* _generate_mitigation_suggestions(hallucination_types)
generate_mitigation_suggestions(types) ==
    LET suggestions ==
            (IF Contains(types, OVERCONFIDENCE)
             THEN <<"Request agent to explicitly state uncertainty and provide confidence intervals">>
             ELSE <<>>)
            \o (IF Contains(types, UNSUPPORTED_CLAIM)
                THEN <<"Ask agent to cite specific sources or evidence for claims">>
                ELSE <<>>)
            \o (IF Contains(types, FACTUAL_INCONSISTENCY)
                THEN <<"Generate multiple responses and compare for consistency">>
                ELSE <<>>)
            \o (IF Contains(types, LOGICAL_CONTRADICTION)
                THEN <<"Enable contradiction detection agent before finalizing response">>
                ELSE <<>>)
    IN  IF Len(suggestions) = 0 THEN <<NoMitigation>> ELSE suggestions

\* ------------------------------------------------- callers and their inputs

\* The sentences responses are made of.
Sentences ==
    << Chars("Earth orbits the Sun."),
       Chars("Earth likely orbits the Sun."),
       Chars("Patient has no known allergies."),
       Chars("It may rain?") >>

\* Sentences picked by index and joined with single spaces.
JoinSentences(picks) ==
    Concat([i \in 1..Len(picks) |->
                (IF i = 1 THEN <<>> ELSE <<" ">>) \o Sentences[picks[i]]])

ResponseTexts ==
    {JoinSentences(picks) :
        picks \in UNION {[1..k -> 1..Len(Sentences)] : k \in 0..MaxSentences}}

\* What a caller passes as response: a text, or a value that is not a string.
Responses == {PyStr(t) : t \in ResponseTexts} \cup {PyNone}

AstronomyItem == <<"astronomy", PyStr(Chars("The Earth orbits the Sun."))>>
MedicalItem ==
    <<"medical_record",
      PyStr(Chars("Patient is allergic to penicillin, not tolerant of it."))>>

\* What a caller passes as context: a dict, or a value that is not a mapping.
Contexts ==
    { PyDict(<<>>),
      PyDict(<<AstronomyItem>>),
      PyDict(<<MedicalItem>>),
      PyDict(<< <<"patient_id", PyInt(12345)>>, <<"query", PyStr(Chars("X"))>> >>),
      PyNone }

\* A sampler: a callable and what a call of it would do.
Callable(behaviour) == [kind |-> "callable", val |-> <<behaviour>>]

\* What a caller passes as agent_function.
AgentFunctions == {PyNone, Callable("returns"), Callable("raises")}

KBEntry(has_confidence, confidence) ==
    [has_confidence |-> has_confidence, confidence |-> confidence]

\* Knowledge bases a detector is configured with: none, one keyed by the
\* digests of lower-cased claims, one keyed by plain names.
EmptyKB == [h \in {} |-> KBEntry(FALSE, RZero)]
DigestKB ==
    (Md5Hex(Chars("patient has no known allergies")) :> KBEntry(TRUE, Rat(95, 100)))
    @@ (Md5Hex(Chars("earth orbits the sun")) :> KBEntry(FALSE, RZero))
NamedKB == (Chars("test_fact_1") :> KBEntry(TRUE, Rat(9, 10)))

\* hallucination_threshold values: the default and the raised ones of the
\* domain configurations
DefaultThreshold == Rat(6, 10)
Thresholds == {DefaultThreshold, Rat(65, 100), Rat(7, 10), Rat(75, 100), Rat(8, 10)}

\* HallucinationDetector.__init__: the fields of a detector built from a
\* config
Configured(hallucination_threshold, consistency_samples, consensus_threshold, knowledge_base) ==
    [hallucination_threshold |-> hallucination_threshold,
     num_samples |-> consistency_samples,
     consensus_threshold |-> consensus_threshold,
     knowledge_base |-> knowledge_base]

\* The detectors of the model: the default thresholds with every number of
\* samples, a raised threshold over a knowledge base with unanimity demanded,
\* and a consensus_threshold no agreement score reaches.
DetectorConfigs ==
    {Configured(DefaultThreshold, k, Rat(7, 10), EmptyKB) : k \in 0..MaxSamples}
    \cup {Configured(Rat(7, 10), MaxSamples, ROne, DigestKB),
          Configured(DefaultThreshold, MaxSamples, Rat(11, 10), NamedKB)}

Calls == {"c1", "c2"}
Detectors == {"d1", "d2"}

CallArgs ==
    {[response |-> r, context |-> c, agent_function |-> f] :
        r \in Responses, c \in Contexts, f \in AgentFunctions}

\* ------------------------------------------------------------- the system

VARIABLES
    detector,             \* detector[d]: the fields of detector d
    detector_of,          \* detector_of[c]: the detector call c is made on
    pc,                   \* pc[c]: where call c of detect stands
    args,                 \* args[c]: response, context, agent_function
    hallucination_types,  \* the locals of detect, per call
    evidence,
    confidence_score,
    samples,              \* the local of check_consistency, per call
    invocations,          \* invocations[c]: the calls made of agent_function
    outcome,              \* outcome[c]: what detect returned or raised
    running               \* the call the event loop is running, or "none"

vars ==
    <<detector, detector_of, pc, args, hallucination_types, evidence,
      confidence_score, samples, invocations, outcome, running>>

NoEvidence == [k \in {} |-> PyNone]

\* The locals of a call that has not started.
InitLocals ==
    /\ hallucination_types = [c \in Calls |-> <<>>]
    /\ evidence = [c \in Calls |-> NoEvidence]
    /\ confidence_score = [c \in Calls |-> ROne]
    /\ samples = [c \in Calls |-> <<>>]
    /\ invocations = [c \in Calls |-> <<>>]
    /\ outcome = [c \in Calls |-> PyNone]
    /\ running = "none"

\* One configured detector, known under both names, and one caller, c1, about
\* to call detect on it; c2 makes no call.
Init ==
    /\ \E cfg \in DetectorConfigs : detector = [d \in Detectors |-> cfg]
    /\ detector_of = [c \in Calls |-> "d1"]
    /\ pc = [c \in Calls |-> IF c = "c1" THEN "idle" ELSE "off"]
    /\ \E a \in CallArgs : args = [c \in Calls |-> a]
    /\ InitLocals

Self(c) == detector[detector_of[c]]

\* detect raises exc from where it stands: the coroutine ends.
Fail(c, exc) ==
    /\ pc' = [pc EXCEPT ![c] = "raised"]
    /\ outcome' = [outcome EXCEPT ![c] = Raises(exc)]
    /\ running' = "none"

\* A variant of the start of a call in which the categories and the score are
\* kept in one place for all calls of the detector, and are reset for all.
DetectSharedLocals(c) ==
    /\ pc[c] = "idle"
    /\ running = "none"
    /\ running' = c
    /\ hallucination_types' = [x \in Calls |-> <<>>]
    /\ evidence' = [evidence EXCEPT ![c] = NoEvidence]
    /\ confidence_score' = [x \in Calls |-> ROne]
    /\ pc' = [pc EXCEPT ![c] = "uncertainty"]
    /\ UNCHANGED <<detector, detector_of, args, samples, invocations, outcome>>

\* detect lines 456-458: the call starts with its locals
Detect(c) ==
    /\ pc[c] = "idle"
    /\ running = "none"
    /\ running' = c
    /\ hallucination_types' = [hallucination_types EXCEPT ![c] = <<>>]
    /\ evidence' = [evidence EXCEPT ![c] = NoEvidence]
    /\ confidence_score' = [confidence_score EXCEPT ![c] = ROne]
    /\ pc' = [pc EXCEPT ![c] = "uncertainty"]
    /\ UNCHANGED <<detector, detector_of, args, samples, invocations, outcome>>

\* detect lines 460-466: uncertainty quantification. response.lower() raises
\* AttributeError when response is not a string.
UncertaintyStep(c) ==
    /\ pc[c] = "uncertainty"
    /\ running = c
    /\ IF ~IsStr(args[c].response)
       THEN /\ Fail(c, "AttributeError")
            /\ UNCHANGED <<hallucination_types, evidence, confidence_score>>
       ELSE \E aleatoric_uncertainty \in
                    {calculate_aleatoric_uncertainty(args[c].response.val)} :
            \E after \in {OverconfidenceRule(hallucination_types[c],
                                confidence_score[c], aleatoric_uncertainty)} :
               /\ evidence' = [evidence EXCEPT ![c] =
                        ("aleatoric_uncertainty" :> aleatoric_uncertainty) @@ @]
               /\ hallucination_types' =
                        [hallucination_types EXCEPT ![c] = after.types]
               /\ confidence_score' =
                        [confidence_score EXCEPT ![c] = after.confidence]
               /\ pc' = [pc EXCEPT ![c] = "consistency"]
               /\ UNCHANGED <<outcome, running>>
    /\ UNCHANGED <<detector, detector_of, args, samples, invocations>>

\* detect line 469 and check_consistency line 173: the check is entered when
\* agent_function is truthy, with an empty list of samples
ConsistencyStart(c) ==
    /\ pc[c] = "consistency"
    /\ running = c
    /\ IF Truthy(args[c].agent_function)
       THEN /\ samples' = [samples EXCEPT ![c] = <<>>]
            /\ pc' = [pc EXCEPT ![c] = "sampling"]
       ELSE /\ pc' = [pc EXCEPT ![c] = "verify"]
            /\ UNCHANGED samples
    /\ UNCHANGED <<detector, detector_of, args, hallucination_types, evidence,
                   confidence_score, invocations, outcome, running>>

\* check_consistency lines 176-180, one turn of the loop: the sample comes
\* from _generate_sample, which makes no call of agent_function and does not
\* suspend. input_data.get raises AttributeError when the context is not a
\* mapping.
GenerateSample(c) ==
    /\ pc[c] = "sampling"
    /\ running = c
    /\ Len(samples[c]) < Self(c).num_samples
    /\ \E sample \in {generate_sample(args[c].agent_function, args[c].context)} :
          IF sample.kind = "raise"
          THEN /\ Fail(c, sample.val)
               /\ UNCHANGED samples
          ELSE /\ samples' = [samples EXCEPT ![c] = Append(@, sample.val)]
               /\ UNCHANGED <<pc, outcome, running>>
    /\ UNCHANGED <<detector, detector_of, args, hallucination_types, evidence,
                   confidence_score, invocations>>

\* check_consistency lines 182-196 and detect lines 473-480: the loop is over;
\* the ConsistencyCheck is built, recorded in evidence and judged.
ConsistencyFinish(c) ==
    /\ pc[c] = "sampling"
    /\ running = c
    /\ Len(samples[c]) = Self(c).num_samples
    /\ \E consistency_result \in
            {ConsistencyCheck(samples[c], Self(c).consensus_threshold)} :
       \E after \in {InconsistencyRule(hallucination_types[c],
                        confidence_score[c], consistency_result.agreement_score,
                        Self(c).consensus_threshold)} :
          /\ evidence' = [evidence EXCEPT ![c] =
                ("consistency_check" :>
                    [agreement_score |-> consistency_result.agreement_score,
                     divergent_points |-> consistency_result.divergent_points])
                @@ @]
          /\ hallucination_types' =
                [hallucination_types EXCEPT ![c] = after.types]
          /\ confidence_score' =
                [confidence_score EXCEPT ![c] = after.confidence]
    /\ pc' = [pc EXCEPT ![c] = "verify"]
    /\ UNCHANGED <<detector, detector_of, args, samples, invocations, outcome,
                   running>>

\* A variant of the fact verification that remembers the response it has
\* verified as an entry of the knowledge base.
FactVerificationRemembers(c) ==
    /\ pc[c] = "verify"
    /\ running = c
    /\ \E verification_results \in
            {verify_claims(Self(c).knowledge_base, args[c].response.val,
                           args[c].context)} :
          IF verification_results.kind = "raise"
          THEN /\ Fail(c, verification_results.val)
               /\ UNCHANGED evidence
          ELSE /\ evidence' = [evidence EXCEPT ![c] =
                        ("fact_verification" :> verification_results.val) @@ @]
               /\ pc' = [pc EXCEPT ![c] = "contradiction"]
               /\ UNCHANGED <<outcome, running>>
    /\ detector' = [detector EXCEPT ![detector_of[c]].knowledge_base =
                        (Md5Hex(Lower(args[c].response.val))
                            :> KBEntry(FALSE, RZero)) @@ @]
    /\ UNCHANGED <<detector_of, args, hallucination_types, confidence_score,
                   samples, invocations>>

\* detect lines 482-484: fact verification, recorded in evidence
FactVerification(c) ==
    /\ pc[c] = "verify"
    /\ running = c
    /\ \E verification_results \in
            {verify_claims(Self(c).knowledge_base, args[c].response.val,
                           args[c].context)} :
          IF verification_results.kind = "raise"
          THEN /\ Fail(c, verification_results.val)
               /\ UNCHANGED evidence
          ELSE /\ evidence' = [evidence EXCEPT ![c] =
                        ("fact_verification" :> verification_results.val) @@ @]
               /\ pc' = [pc EXCEPT ![c] = "contradiction"]
               /\ UNCHANGED <<outcome, running>>
    /\ UNCHANGED <<detector, detector_of, args, hallucination_types,
                   confidence_score, samples, invocations>>

\* detect lines 486-488
ContradictionStep(c) ==
    /\ pc[c] = "contradiction"
    /\ running = c
    /\ \E after \in {ContradictionRule(hallucination_types[c],
                        confidence_score[c], evidence[c]["fact_verification"])} :
          /\ hallucination_types' =
                [hallucination_types EXCEPT ![c] = after.types]
          /\ confidence_score' =
                [confidence_score EXCEPT ![c] = after.confidence]
    /\ pc' = [pc EXCEPT ![c] = "unsupported"]
    /\ UNCHANGED <<detector, detector_of, args, evidence, samples, invocations,
                   outcome, running>>

\* detect lines 490-492
UnsupportedStep(c) ==
    /\ pc[c] = "unsupported"
    /\ running = c
    /\ \E after \in {UnsupportedRule(hallucination_types[c],
                        confidence_score[c], evidence[c]["fact_verification"])} :
          /\ hallucination_types' =
                [hallucination_types EXCEPT ![c] = after.types]
          /\ confidence_score' =
                [confidence_score EXCEPT ![c] = after.confidence]
    /\ pc' = [pc EXCEPT ![c] = "finish"]
    /\ UNCHANGED <<detector, detector_of, args, evidence, samples, invocations,
                   outcome, running>>

\* detect lines 494-514: the determination, the reasoning, the suggestions and
\* the HallucinationDetectionResult returned
Finish(c) ==
    /\ pc[c] = "finish"
    /\ running = c
    /\ outcome' = [outcome EXCEPT ![c] = Returns(
            [is_hallucination |->
                IsHallucination(confidence_score[c],
                                Self(c).hallucination_threshold),
             confidence_score |-> confidence_score[c],
             hallucination_types |-> hallucination_types[c],
             evidence |-> evidence[c],
             reasoning |-> generate_reasoning(hallucination_types[c],
                                evidence[c], confidence_score[c]),
             mitigation_suggestions |->
                generate_mitigation_suggestions(hallucination_types[c])])]
    /\ pc' = [pc EXCEPT ![c] = "done"]
    /\ running' = "none"
    /\ UNCHANGED <<detector, detector_of, args, hallucination_types, evidence,
                   confidence_score, samples, invocations>>

Next ==
    \E c \in Calls :
        \/ Detect(c)
        \/ UncertaintyStep(c)
        \/ ConsistencyStart(c)
        \/ GenerateSample(c)
        \/ ConsistencyFinish(c)
        \/ FactVerification(c)
        \/ ContradictionStep(c)
        \/ UnsupportedStep(c)
        \/ Finish(c)

Spec == Init /\ [][Next]_vars

\* ------------------------------------------------------------- properties

\* The calls whose detect has returned a result.
Returned == {c \in Calls : pc[c] = "done"}

\* The calls inside detect, past the initialisation of the locals.
InDetect ==
    {c \in Calls : pc[c] \in {"uncertainty", "consistency", "sampling", "verify",
                              "contradiction", "unsupported", "finish"}}

\* C1: within one detect call the running confidence starts at 1.0, and every
\* step (uncertainty, consistency, contradiction rule, unsupported rule)
\* leaves it unchanged or multiplies it by a factor in [0,1]: the new value
\* lies between 0 and the old one.
C1_ConfidenceNeverIncreases ==
    [][\A c \in Calls :
          /\ (pc[c] = "idle" /\ pc'[c] # "idle") => confidence_score'[c] = ROne
          /\ c \in InDetect =>
                \/ confidence_score'[c] = confidence_score[c]
                \/ /\ RLeq(RZero, confidence_score'[c])
                   /\ RLeq(confidence_score'[c], confidence_score[c])]_vars

\* A call whose confidence three rules have multiplied down.
C1_Witness ==
    \E c \in Calls :
        /\ pc[c] = "finish"
        /\ Len(hallucination_types[c]) = 3
        /\ RLt(confidence_score[c], Rat(1, 2))
        /\ RLt(RZero, confidence_score[c])

\* The multiplier of a rule: its factor when it fired, 1.0 otherwise.
Factor(fired, factor) == IF fired THEN factor ELSE ROne

\* C2: a returned result carries exactly the categories whose rule fired, in
\* the order of the rules, and a confidence_score that is the product of the
\* fired rules' multipliers: overconfidence iff aleatoric > 0.5 (1 -
\* aleatoric), factual_inconsistency iff a sampler was supplied and
\* agreement_score < consensus_threshold (agreement_score),
\* logical_contradiction iff contradicted > 0 (0.5), unsupported_claim iff
\* unverified > verified (0.7).
C2_CategoriesAndProduct ==
    \A c \in Returned :
        LET result == outcome[c].val
            ev == result.evidence
            aleatoric == ev["aleatoric_uncertainty"]
            fv == ev["fact_verification"]
            sampled == Truthy(args[c].agent_function)
            agreement ==
                IF sampled THEN ev["consistency_check"].agreement_score ELSE ROne
            over == RLt(Rat(1, 2), aleatoric)
            incons == sampled /\ RLt(agreement, Self(c).consensus_threshold)
            contra == fv.contradicted_claims > 0
            unsup == fv.unverified_claims > fv.verified_claims
        IN  /\ sampled <=> "consistency_check" \in DOMAIN ev
            /\ result.hallucination_types =
                    (IF over THEN <<OVERCONFIDENCE>> ELSE <<>>)
                    \o (IF incons THEN <<FACTUAL_INCONSISTENCY>> ELSE <<>>)
                    \o (IF contra THEN <<LOGICAL_CONTRADICTION>> ELSE <<>>)
                    \o (IF unsup THEN <<UNSUPPORTED_CLAIM>> ELSE <<>>)
            /\ result.confidence_score =
                    RMul(RMul(Factor(over, RSub(ROne, aleatoric)),
                              Factor(incons, agreement)),
                         RMul(Factor(contra, Rat(5, 10)),
                              Factor(unsup, Rat(7, 10))))

\* A result on which all four rules fired.
C2_Witness ==
    \E c \in Returned :
        outcome[c].val.hallucination_types =
            <<OVERCONFIDENCE, FACTUAL_INCONSISTENCY, LOGICAL_CONTRADICTION,
              UNSUPPORTED_CLAIM>>

\* C3: is_hallucination is true exactly when the final confidence_score is
\* strictly less than 1 - hallucination_threshold; under the default
\* threshold 0.6 the floor is 0.4, and a confidence equal to the floor is not
\* flagged.
C3_FlaggedBelowFloor ==
    \A c \in Returned :
        LET result == outcome[c].val
            threshold == Self(c).hallucination_threshold
        IN  /\ result.is_hallucination <=>
                    RLt(result.confidence_score, RSub(ROne, threshold))
            /\ threshold = DefaultThreshold =>
                    (result.is_hallucination <=>
                        RLt(result.confidence_score, Rat(4, 10)))

\* A result under the default threshold whose confidence is the floor 0.4.
C3_Witness ==
    \E c \in Returned :
        /\ Self(c).hallucination_threshold = DefaultThreshold
        /\ outcome[c].val.confidence_score = Rat(4, 10)
        /\ ~outcome[c].val.is_hallucination

\* The calls on a detector whose consensus_threshold lies in (0,1], the range
\* of the setting.
ConsensusInRange ==
    {c \in Calls :
        /\ RLt(RZero, Self(c).consensus_threshold)
        /\ RLeq(Self(c).consensus_threshold, ROne)}

\* C4: every result detect returns has confidence_score in [0,1], for a
\* configuration with consensus_threshold in (0,1], with or without a sampler.
C4_ConfidenceInUnitInterval ==
    \A c \in Returned \cap ConsensusInRange :
        /\ RLeq(RZero, outcome[c].val.confidence_score)
        /\ RLeq(outcome[c].val.confidence_score, ROne)

\* A result of a call with a sampler, under a consensus_threshold of 1.0,
\* whose confidence lies strictly inside the interval.
C4_Witness ==
    \E c \in Returned :
        /\ Self(c).consensus_threshold = ROne
        /\ Truthy(args[c].agent_function)
        /\ RLt(RZero, outcome[c].val.confidence_score)
        /\ RLt(outcome[c].val.confidence_score, ROne)

\* The calls whose check_consistency has returned.
Sampled ==
    {c \in Calls :
        /\ Truthy(args[c].agent_function)
        /\ pc[c] \in {"verify", "contradiction", "unsupported", "finish",
                      "done"}}

\* C5: each check_consistency call invokes the caller-supplied sampler
\* exactly sample_count times with the given input, and the collected
\* variants are what the sampler returned, in invocation order.
C5_SamplerInvokedPerSample ==
    \A c \in Sampled :
        /\ Len(invocations[c]) = Self(c).num_samples
        /\ \A i \in 1..Len(invocations[c]) :
                /\ invocations[c][i].input = args[c].context
                /\ samples[c][i] = invocations[c][i].returned

\* The keys detect writes into evidence, and the fields of the
\* consistency_check entry.
EvidenceKeys == {"aleatoric_uncertainty", "consistency_check", "fact_verification"}
ConsistencyKeys == {"agreement_score", "divergent_points"}

\* Evidence that records a failed sample: an entry or a field beyond the ones
\* a check without failures writes.
RecordsFailure(ev) ==
    \/ DOMAIN ev \ EvidenceKeys # {}
    \/ /\ "consistency_check" \in DOMAIN ev
       /\ DOMAIN ev["consistency_check"] # ConsistencyKeys

\* C6: if a sampler call errors during check_consistency, the error does not
\* propagate out of check_consistency or detect: the failed sample is absent
\* (the sample list is shorter than sample_count), the failure is recorded in
\* the evidence, and detect still returns a result. The sampler here is one
\* whose every call errors, given well-formed input and sample_count > 0.
C6_FailedSampleAbsent ==
    \A c \in Calls :
        (/\ args[c].agent_function = Callable("raises")
         /\ IsStr(args[c].response)
         /\ IsDict(args[c].context)
         /\ Self(c).num_samples > 0)
        => /\ pc[c] # "raised"
           /\ c \in Sampled =>
                /\ Len(samples[c]) < Self(c).num_samples
                /\ RecordsFailure(evidence[c])

\* A response that is not a string, or a context that is not a mapping.
Malformed(c) == ~IsStr(args[c].response) \/ ~IsDict(args[c].context)

\* C7: detect called with a malformed input immediately signals an
\* InvalidInputError and returns no result: the call gets no further than the
\* start of detect, and what it raises is InvalidInputError.
C7_MalformedInputRejected ==
    \A c \in Calls :
        Malformed(c) =>
            /\ pc[c] \in {"off", "idle", "uncertainty", "raised"}
            /\ pc[c] = "raised" => outcome[c] = Raises("InvalidInputError")

\* C8: detect with an empty response and/or an empty context (a string and a
\* mapping, one or both of them empty) never raises; for the empty response
\* with the empty context the result reports zero claims, no category, and
\* is_hallucination false. The configurations are those with
\* consensus_threshold in (0,1].
C8_EmptyInputsFlowThrough ==
    \A c \in ConsensusInRange :
        (/\ IsStr(args[c].response)
         /\ IsDict(args[c].context)
         /\ (Len(args[c].response.val) = 0 \/ Len(args[c].context.val) = 0))
        => /\ pc[c] # "raised"
           /\ (/\ c \in Returned
               /\ Len(args[c].response.val) = 0
               /\ Len(args[c].context.val) = 0)
              => /\ outcome[c].kind = "return"
                 /\ outcome[c].val.evidence["fact_verification"].total_claims = 0
                 /\ outcome[c].val.hallucination_types = <<>>
                 /\ ~outcome[c].val.is_hallucination

\* The empty response with the empty context and a sampler, returned.
C8_Witness ==
    \E c \in Returned \cap ConsensusInRange :
        /\ args[c].response = PyStr(<<>>)
        /\ args[c].context = PyDict(<<>>)
        /\ Truthy(args[c].agent_function)
        /\ outcome[c].val.confidence_score = ROne

\* C9: raising hallucination_threshold makes detection stricter: a response
\* flagged under a threshold is flagged under every higher threshold, for the
\* same response, context and sampler. No step before line 495 reads the
\* threshold, so what a detector with a higher threshold decides on the same
\* inputs is line 495 applied to the same confidence.
C9_HigherThresholdStricter ==
    \A c \in Returned :
        \A higher \in Thresholds :
            (/\ RLt(Self(c).hallucination_threshold, higher)
             /\ outcome[c].val.is_hallucination)
            => IsHallucination(outcome[c].val.confidence_score, higher)

\* C10: a knowledge-base hit always wins: a claim whose case-folded
\* fingerprint is a key of the knowledge base is verified, with source
\* knowledge_base and the stored confidence (0.8 if none is stored),
\* whatever the context contains.
C10_KnowledgeBaseHitWins ==
    \A c \in Calls :
        "fact_verification" \in DOMAIN evidence[c] =>
            LET details == evidence[c]["fact_verification"].claim_details
                kb == Self(c).knowledge_base
            IN  \A i \in 1..Len(details) :
                    LET claim_hash == Md5Hex(Lower(details[i].claim))
                    IN  claim_hash \in DOMAIN kb =>
                            /\ details[i].status = "verified"
                            /\ details[i].source = "knowledge_base"
                            /\ details[i].confidence =
                                    IF kb[claim_hash].has_confidence
                                    THEN kb[claim_hash].confidence
                                    ELSE Rat(8, 10)

\* A verified claim of the knowledge base that the context, consulted alone,
\* would contradict.
C10_Witness ==
    \E c \in Calls :
        /\ "fact_verification" \in DOMAIN evidence[c]
        /\ IsDict(args[c].context)
        /\ \E i \in 1..Len(evidence[c]["fact_verification"].claim_details) :
              LET detail == evidence[c]["fact_verification"].claim_details[i]
              IN  /\ Md5Hex(Lower(detail.claim)) \in DOMAIN Self(c).knowledge_base
                  /\ detail.status = "verified"
                  /\ ~has_supporting_evidence(detail.claim, args[c].context)
                  /\ has_contradicting_evidence(detail.claim, args[c].context)

\* ------------------------------------------- components called directly

\* The sentences of the texts handed to a component directly.
Phrases ==
    << Chars("Earth orbits the Sun."),
       Chars("It is raining!"),
       Chars("Perhaps it is a long one?"),
       Chars("This thing Should work."),
       Chars("It might be so."),
       Chars("Treatment A is likely best.") >>

\* Phrases picked by index and joined with single spaces.
JoinPhrases(picks) ==
    Concat([i \in 1..Len(picks) |->
                (IF i = 1 THEN <<>> ELSE <<" ">>) \o Phrases[picks[i]]])

Texts ==
    {JoinPhrases(picks) :
        picks \in UNION {[1..k -> 1..Len(Phrases)] : k \in 0..MaxSentences}}

\* The claims handed to _verify_single_claim.
Claims ==
    { <<>>,
      Chars("Earth orbits the Sun"),
      Chars("Patient has no known allergies"),
      Chars("Water is wet today"),
      Chars("Water boils quickly") }

\* The text values of the contexts handed to _verify_single_claim.
ContextTexts ==
    Claims \cup
    { Chars("water is not wet today"),
      Chars("It never rains quickly here"),
      Chars("Nothing was recorded"),
      Chars("Patient has diabetes") }

ClaimContexts ==
    {PyDict(<<>>)}
    \cup {PyDict(<< <<"note", PyStr(v)>> >>) : v \in ContextTexts}
    \cup {PyDict(<< <<"id", PyInt(7)>>, <<"note", PyStr(v)>> >>) : v \in ContextTexts}

\* The variants of the lists handed to a component directly.
Variants ==
    << <<>>,
       Chars("Patient has diabetes. Patient has diabetes."),
       Chars("Treatment A is recommended"),
       Chars("Treatment A is the best option") >>

VariantLists ==
    UNION {[1..k -> {Variants[i] : i \in 1..Len(Variants)}] : k \in 0..MaxVariants}

\* A direct call of a method of a component.
MethodCall(method, text, context, variants) ==
    [method |-> method, text |-> text, context |-> context, variants |-> variants]

VerifyCalls ==
    {MethodCall("_verify_single_claim", t, x, <<>>) : t \in Claims, x \in ClaimContexts}

\* The calls of verify_claims: a response of the callers of detect against a
\* context of one text value.
VerifyClaimsCalls ==
    {MethodCall("verify_claims", t, x, <<>>) : t \in ResponseTexts, x \in ClaimContexts}

TextCalls ==
    {MethodCall(m, t, PyNone, <<>>) :
        m \in {"_extract_factual_claims", "_extract_claims",
               "calculate_aleatoric_uncertainty"},
        t \in Texts}

VariantCalls ==
    {MethodCall(m, <<>>, PyNone, v) :
        m \in {"calculate_epistemic_uncertainty", "_calculate_agreement",
               "_find_consensus", "_identify_divergent_points"},
        v \in VariantLists}

ConsistencyCalls ==
    {MethodCall("check_consistency", <<>>, x, <<>>) :
        x \in {PyDict(<<>>), PyDict(<< <<"query", PyStr(Chars("X"))>> >>)}}

\* The components a direct call is made on, as the fields of a detector, with
\* the calls made on them: the verifier and the checker under every
\* configuration, the quantifier under one.
ComponentCalls ==
    (DetectorConfigs \X (VerifyCalls \cup VerifyClaimsCalls \cup ConsistencyCalls))
    \cup ({Configured(DefaultThreshold, MaxSamples, Rat(7, 10), EmptyKB)}
          \X (TextCalls \cup VariantCalls))

\* One component and one caller about to call one of its methods.
InitComponent ==
    /\ \E setup \in ComponentCalls :
          /\ detector = [d \in Detectors |-> setup[1]]
          /\ args = [c \in Calls |-> setup[2]]
    /\ detector_of = [c \in Calls |-> "d1"]
    /\ pc = [c \in Calls |-> IF c = "c1" THEN "call" ELSE "off"]
    /\ InitLocals

\* The call returns: what it returned is the outcome.
ReturnFrom(c, value) ==
    /\ outcome' = [outcome EXCEPT ![c] = Returns(value)]
    /\ pc' = [pc EXCEPT ![c] = "done"]
    /\ UNCHANGED <<detector, detector_of, args, hallucination_types, evidence,
                   confidence_score, samples, invocations, running>>

Calling(c, method) == pc[c] = "call" /\ args[c].method = method

\* FactVerificationAgent._verify_single_claim(claim, context)
VerifySingleClaim(c) ==
    /\ Calling(c, "_verify_single_claim")
    /\ ReturnFrom(c, verify_single_claim(Self(c).knowledge_base,
                                         args[c].text, args[c].context).val)

\* FactVerificationAgent.verify_claims(response, context), context a mapping
VerifyClaims(c) ==
    /\ Calling(c, "verify_claims")
    /\ ReturnFrom(c, verify_claims(Self(c).knowledge_base, args[c].text,
                                   args[c].context).val)

\* FactVerificationAgent._extract_factual_claims(text)
ExtractFactualClaims(c) ==
    /\ Calling(c, "_extract_factual_claims")
    /\ ReturnFrom(c, extract_factual_claims(args[c].text))

\* SelfConsistencyChecker._extract_claims(text)
ExtractClaims(c) ==
    /\ Calling(c, "_extract_claims")
    /\ ReturnFrom(c, extract_claims(args[c].text))

\* UncertaintyQuantifier.calculate_aleatoric_uncertainty(response)
AleatoricUncertainty(c) ==
    /\ Calling(c, "calculate_aleatoric_uncertainty")
    /\ ReturnFrom(c, calculate_aleatoric_uncertainty(args[c].text))

\* UncertaintyQuantifier.calculate_epistemic_uncertainty(response_variations)
EpistemicUncertainty(c) ==
    /\ Calling(c, "calculate_epistemic_uncertainty")
    /\ ReturnFrom(c, calculate_epistemic_uncertainty(args[c].variants))

\* SelfConsistencyChecker._calculate_agreement(samples)
CalculateAgreement(c) ==
    /\ Calling(c, "_calculate_agreement")
    /\ ReturnFrom(c, calculate_agreement(args[c].variants))

\* SelfConsistencyChecker._find_consensus(samples)
FindConsensus(c) ==
    /\ Calling(c, "_find_consensus")
    /\ ReturnFrom(c, find_consensus(args[c].variants))

\* SelfConsistencyChecker.check_consistency(agent_function, input_data), with
\* a mapping as input_data: num_samples awaits of _generate_sample, none of
\* which suspends, then the ConsistencyCheck built from the samples.
CheckConsistency(c) ==
    /\ Calling(c, "check_consistency")
    /\ LET response == generate_sample(PyNone, args[c].context).val
           collected == [i \in 1..Self(c).num_samples |-> response]
       IN  ReturnFrom(c, ConsistencyCheck(collected, Self(c).consensus_threshold))

\* SelfConsistencyChecker._identify_divergent_points(samples)
IdentifyDivergentPoints(c) ==
    /\ Calling(c, "_identify_divergent_points")
    /\ ReturnFrom(c, identify_divergent_points(args[c].variants))

NextComponent ==
    \E c \in Calls :
        \/ VerifySingleClaim(c)
        \/ VerifyClaims(c)
        \/ ExtractFactualClaims(c)
        \/ ExtractClaims(c)
        \/ AleatoricUncertainty(c)
        \/ EpistemicUncertainty(c)
        \/ CalculateAgreement(c)
        \/ FindConsensus(c)
        \/ CheckConsistency(c)
        \/ IdentifyDivergentPoints(c)

SpecComponent == InitComponent /\ [][NextComponent]_vars

\* The direct calls of a method that have returned.
ReturnedFrom(method) ==
    {c \in Calls : pc[c] = "done" /\ "method" \in DOMAIN args[c]
                   /\ args[c].method = method}

\* The claim is, character for character, a text value of the context.
Verbatim(claim, context) ==
    \E i \in 1..Len(context.val) : context.val[i][2] = PyStr(claim)

\* The claim's case-folded fingerprint is a key of the knowledge base of c.
KnowledgeBaseHit(c, claim) ==
    Md5Hex(Lower(claim)) \in DOMAIN Self(c).knowledge_base

\* C11 as stated: for every knowledge base and every context, a claim whose
\* text is present verbatim as a text value of the context is classified
\* verified with source context.
C11_VerbatimClaimVerified ==
    \A c \in ReturnedFrom("_verify_single_claim") :
        Verbatim(args[c].text, args[c].context) =>
            /\ outcome[c].val.status = "verified"
            /\ outcome[c].val.source = "context"

\* C11 amended: a claim with at least one token, whose fingerprint is not a
\* key of the knowledge base and whose text is present verbatim as a text
\* value of the context, is classified verified with source context.
C11_VerbatimClaimVerifiedOnMiss ==
    \A c \in ReturnedFrom("_verify_single_claim") :
        (/\ Verbatim(args[c].text, args[c].context)
         /\ TokenSet(args[c].text) # {}
         /\ ~KnowledgeBaseHit(c, args[c].text))
        => /\ outcome[c].val.status = "verified"
           /\ outcome[c].val.source = "context"

\* A verbatim claim verified from the context under a knowledge base that
\* holds other claims.
C11_Witness ==
    \E c \in ReturnedFrom("_verify_single_claim") :
        /\ Verbatim(args[c].text, args[c].context)
        /\ Self(c).knowledge_base = DigestKB
        /\ TokenSet(args[c].text) # {}
        /\ outcome[c].val.source = "context"

\* Some text value of the context contains a negation marker together with
\* one of the first three words of the claim, case folded.
NegatedInContext(claim, context) ==
    LET markers == {Chars("not"), Chars("never"), Chars("no"), Chars("false"),
                    Chars("incorrect")}
        words == Split(Lower(claim))
        leading == {words[k] : k \in {k \in 1..Len(words) : k <= 3}}
    IN  \E i \in 1..Len(context.val) :
            /\ context.val[i][2].kind = "str"
            /\ \E marker \in markers : IsSub(marker, Lower(context.val[i][2].val))
            /\ \E word \in leading : IsSub(word, Lower(context.val[i][2].val))

\* The classification of per-claim verification as contradicted.
Contradicted(detail) ==
    /\ detail.status = "contradicted"
    /\ detail.source = "context"
    /\ detail.confidence = Rat(9, 10)

\* C12 as stated: for every claim and context in which some text context value
\* contains a negation marker (not, never, no, false, incorrect) together
\* with one of the claim's first three words, per-claim verification
\* classifies the claim as contradicted (source context, confidence 0.9).
C12_NegatedClaimContradicted ==
    \A c \in ReturnedFrom("_verify_single_claim") :
        NegatedInContext(args[c].text, args[c].context) =>
            Contradicted(outcome[c].val)

\* C12 amended: such a claim is classified as contradicted (source context,
\* confidence 0.9) when its fingerprint is not a key of the knowledge base
\* and no text value of the context supports it.
C12_NegatedClaimContradictedLast ==
    \A c \in ReturnedFrom("_verify_single_claim") :
        (/\ NegatedInContext(args[c].text, args[c].context)
         /\ ~KnowledgeBaseHit(c, args[c].text)
         /\ ~has_supporting_evidence(args[c].text, args[c].context))
        => Contradicted(outcome[c].val)

\* A claim contradicted through its third word alone.
C12_Witness ==
    \E c \in ReturnedFrom("_verify_single_claim") :
        /\ args[c].text = Chars("Water boils quickly")
        /\ Verbatim(Chars("It never rains quickly here"), args[c].context)
        /\ Contradicted(outcome[c].val)

\* The sentences the extraction rule keeps: split on terminal punctuation and
\* stripped, longer than 15 characters, not beginning with a subjective
\* hedge, and holding at least one of the verb tokens.
RuleClaims(text) ==
    LET hedges == {Chars("i think"), Chars("in my opinion"), Chars("perhaps")}
        verbs == {Chars("is"), Chars("are"), Chars("was"), Chars("were"),
                  Chars("has"), Chars("have")}
        pieces == ReSplit(text)
        sentences == [i \in 1..Len(pieces) |-> Strip(pieces[i])]
    IN  SelectSeq(sentences,
                  LAMBDA sentence :
                     /\ Len(sentence) > 15
                     /\ \A hedge \in hedges : ~StartsWith(Lower(sentence), hedge)
                     /\ TokenSet(sentence) \cap verbs # {})

\* C13: claim extraction, as used by verify_claims and by the consistency
\* checker's divergent-claim tally, keeps exactly the sentences that are
\* longer than 15 characters, do not begin with "i think", "in my opinion" or
\* "perhaps", and contain at least one of the word tokens is, are, was, were,
\* has, have; the two components select the same claims from the same text.
C13_SharedExtractionRule ==
    \A c \in ReturnedFrom("_extract_factual_claims")
             \cup ReturnedFrom("_extract_claims") :
        outcome[c].val = RuleClaims(args[c].text)

\* The hedge markers of a tier that occur in the case-folded response.
Hedges(response, tier) ==
    {marker \in tier : IsSub(marker, Lower(response))}

VeryHighTier ==
    {Chars("might"), Chars("maybe"), Chars("perhaps"), Chars("possibly"),
     Chars("uncertain"), Chars("unclear"), Chars("not sure"),
     Chars("probably not")}
HighTier ==
    {Chars("likely"), Chars("probably"), Chars("seems"), Chars("appears"),
     Chars("suggests")}
MediumTier == {Chars("could"), Chars("may"), Chars("might be")}
LowTier == {Chars("should"), Chars("expected"), Chars("typically")}

\* C14: aleatoric_uncertainty returns exactly the baseline 0.1 for every
\* response (the empty string included) in which no hedge marker matches, and
\* otherwise min(1.0, sum of the tier weights of the matched markers / number
\* of matched markers), with weights 0.8/0.6/0.4/0.2 for the very-high, high,
\* medium and low tiers; the result is always in [0,1].
C14_AleatoricFormula ==
    \A c \in ReturnedFrom("calculate_aleatoric_uncertainty") :
        LET very_high == Cardinality(Hedges(args[c].text, VeryHighTier))
            high == Cardinality(Hedges(args[c].text, HighTier))
            medium == Cardinality(Hedges(args[c].text, MediumTier))
            low == Cardinality(Hedges(args[c].text, LowTier))
            matched == very_high + high + medium + low
            tenths == 8 * very_high + 6 * high + 4 * medium + 2 * low
        IN  /\ matched = 0 => outcome[c].val = Rat(1, 10)
            /\ matched > 0 =>
                    outcome[c].val = (IF tenths > 10 * matched THEN ROne
                                      ELSE Rat(tenths, 10 * matched))
            /\ RLeq(RZero, outcome[c].val)
            /\ RLeq(outcome[c].val, ROne)

\* A response in which markers of three tiers match.
C14_Witness ==
    \E c \in ReturnedFrom("calculate_aleatoric_uncertainty") :
        /\ Hedges(args[c].text, VeryHighTier) # {}
        /\ Hedges(args[c].text, MediumTier) # {}
        /\ Hedges(args[c].text, LowTier) # {}
        /\ outcome[c].val = Rat(7, 15)

\* The variants are two or more copies of one text.
IdenticalCopies(variants) ==
    /\ Len(variants) >= 2
    /\ \A i, j \in 1..Len(variants) : variants[i] = variants[j]

\* C15: epistemic_uncertainty of N >= 2 identical copies of any text t
\* returns 0.
C15_IdenticalCopiesCertain ==
    \A c \in ReturnedFrom("calculate_epistemic_uncertainty") :
        IdenticalCopies(args[c].variants) => outcome[c].val = RZero

\* Every two of the variants share at least two tokens.
SharedTokens(variants) ==
    /\ Len(variants) >= 2
    /\ \A i, j \in 1..Len(variants) :
            Cardinality(TokenSet(variants[i]) \cap TokenSet(variants[j])) >= 2

\* C16: for variants in which every pair shares at least two tokens, as the
\* three 'acute appendicitis' variants of the low-variation test do,
\* epistemic_uncertainty returns less than 0.4.
C16_LowVariationBelowBound ==
    \A c \in ReturnedFrom("calculate_epistemic_uncertainty") :
        SharedTokens(args[c].variants) => RLt(outcome[c].val, Rat(4, 10))

\* overlap / total if total > 0 else 0, of the token sets of two variants
PairSimilarity(a, b) ==
    IF TokenSet(a) \cup TokenSet(b) = {} THEN RZero
    ELSE Jaccard(TokenSet(a), TokenSet(b))

\* The similarities of all unordered pairs of the variants.
AllPairSimilarities(variants) ==
    LET pairs == IndexPairs(Len(variants))
    IN  [p \in 1..Len(pairs) |->
            PairSimilarity(variants[pairs[p][1]], variants[pairs[p][2]])]

\* C17: for every list of variants, agreement_score equals the mean of the
\* token-set Jaccard similarities of all unordered pairs of variants, every
\* pair counted, a pair with a token-less variant included; it equals 1.0
\* when there is only one variant.
C17_AgreementIsMeanOfAllPairs ==
    \A c \in ReturnedFrom("_calculate_agreement") :
        LET variants == args[c].variants
        IN  /\ Len(variants) = 1 => outcome[c].val = ROne
            /\ Len(variants) >= 2 =>
                    outcome[c].val = Mean(AllPairSimilarities(variants))

\* The average similarity of variant i to all the other variants.
AverageToOthers(variants, i) ==
    LET others == SelectSeq(UpTo(Len(variants)), LAMBDA j : j # i)
    IN  Mean([k \in 1..Len(others) |->
                PairSimilarity(variants[i], variants[others[k]])])

\* C18: check_consistency returns a consensus_response only when
\* agreement_score >= consensus_threshold, and otherwise the field is absent;
\* a consensus that is returned is the variant whose average token-set
\* similarity to all the other variants is highest, so that a minority
\* outlier is never selected.
C18_ConsensusIsMostSimilar ==
    /\ \A c \in ReturnedFrom("check_consistency") :
            RLt(outcome[c].val.agreement_score, Self(c).consensus_threshold)
                => outcome[c].val.consensus_response = PyNone
    /\ \A c \in ReturnedFrom("_find_consensus") :
            LET variants == args[c].variants
            IN  Len(variants) >= 2 =>
                    \E i \in 1..Len(variants) :
                        /\ outcome[c].val = PyStr(variants[i])
                        /\ \A j \in 1..Len(variants) :
                                RLeq(AverageToOthers(variants, j),
                                     AverageToOthers(variants, i))

\* The variants in which the claim is one of the extracted claims.
VariantsWith(variants, claim) ==
    {i \in 1..Len(variants) : claim \in SeqToSet(extract_claims(variants[i]))}

\* C19: the divergent claims returned for a list of variants are exactly the
\* distinct claim strings that occur in fewer than 30% of the variants, in
\* order of first appearance, truncated to at most 5 entries.
C19_DivergentAreMinorityClaims ==
    \A c \in ReturnedFrom("_identify_divergent_points") :
        LET variants == args[c].variants
            all_claims ==
                Concat([i \in 1..Len(variants) |-> extract_claims(variants[i])])
            first == Distinct(all_claims)
            minority ==
                SelectSeq(first,
                          LAMBDA k :
                            10 * Cardinality(VariantsWith(variants, all_claims[k]))
                                < 3 * Len(variants))
            expected == [k \in 1..Len(minority) |-> all_claims[minority[k]]]
        IN  outcome[c].val = SubSeq(expected, 1, Min({Len(expected), 5}))

\* Each of the two or more variants has a claim that no other variant has.
EachHasOwnClaim(variants) ==
    /\ Len(variants) >= 2
    /\ \A i \in 1..Len(variants) :
            \E claim \in SeqToSet(extract_claims(variants[i])) :
                VariantsWith(variants, claim) = {i}

\* C20: when each variant contains a claim that appears in no other variant,
\* for any number of variants >= 2, _identify_divergent_points returns a
\* non-empty list.
C20_DisagreementReported ==
    \A c \in ReturnedFrom("_identify_divergent_points") :
        EachHasOwnClaim(args[c].variants) => outcome[c].val # <<>>

\* The orders a list of n variants can be put in.
Orders(n) ==
    {f \in [1..n -> 1..n] : \A i, j \in 1..n : f[i] = f[j] => i = j}

Permuted(variants, f) == [i \in 1..Len(variants) |-> variants[f[i]]]

\* C21: sample aggregation is order-independent: for every list of variants
\* and every permutation of it, agreement_score is the same and the selected
\* consensus_response is the same, for every consensus_threshold in (0,1]
\* (a consensus is selected under some such threshold exactly when the
\* agreement score is positive).
C21_AggregationOrderIndependent ==
    /\ \A c \in ReturnedFrom("_calculate_agreement") :
            \A f \in Orders(Len(args[c].variants)) :
                calculate_agreement(Permuted(args[c].variants, f)) = outcome[c].val
    /\ \A c \in ReturnedFrom("_find_consensus") :
            RLt(RZero, calculate_agreement(args[c].variants)) =>
                \A f \in Orders(Len(args[c].variants)) :
                    find_consensus(Permuted(args[c].variants, f)) = outcome[c].val

\* ------------------------------------------- concurrent callers of detect

\* The arguments of the concurrent calls, in a fixed order.
ConcurrentArgs ==
    LET responses == <<PyStr(JoinSentences(<<2, 3>>)), PyStr(JoinSentences(<<1>>)),
                       PyNone>>
        contexts == <<PyDict(<<MedicalItem>>),
                      PyDict(<< <<"patient_id", PyInt(12345)>>,
                                <<"query", PyStr(Chars("X"))>>,
                                <<"geology",
                                  PyStr(Chars("Earthquakes are not rare."))>> >>)>>
        samplers == <<PyNone, Callable("returns")>>
    IN  [k \in 1..12 |->
            [response |-> responses[((k - 1) % 3) + 1],
             context |-> contexts[(((k - 1) \div 3) % 2) + 1],
             agent_function |-> samplers[((k - 1) \div 6) + 1]]]

ConcurrentConfigs ==
    {Configured(Rat(7, 10), MaxSamples, ROne, DigestKB),
     Configured(DefaultThreshold, MaxSamples, Rat(11, 10), NamedKB)}

\* One detector and two callers, each on a thread with an event loop of its
\* own, about to call detect on it.
InitConcurrent ==
    /\ \E cfg \in ConcurrentConfigs : detector = [d \in Detectors |-> cfg]
    /\ detector_of = [c \in Calls |-> "d1"]
    /\ pc = [c \in Calls |-> "idle"]
    /\ \E i, j \in 1..Len(ConcurrentArgs) :
            /\ i <= j
            /\ args = [c \in Calls |-> IF c = "c1" THEN ConcurrentArgs[i]
                                       ELSE ConcurrentArgs[j]]
    /\ InitLocals

\* The thread of call c is switched out between two steps of detect: here
\* running is the call whose thread holds the interpreter.
Preempt(c) ==
    /\ running = c
    /\ c \in InDetect
    /\ running' = "none"
    /\ UNCHANGED <<detector, detector_of, pc, args, hallucination_types,
                   evidence, confidence_score, samples, invocations, outcome>>

\* The thread of call c is switched in again.
Resume(c) ==
    /\ running = "none"
    /\ c \in InDetect
    /\ running' = c
    /\ UNCHANGED <<detector, detector_of, pc, args, hallucination_types,
                   evidence, confidence_score, samples, invocations, outcome>>

NextConcurrent ==
    \E c \in Calls :
        \/ Detect(c)
        \/ UncertaintyStep(c)
        \/ ConsistencyStart(c)
        \/ GenerateSample(c)
        \/ ConsistencyFinish(c)
        \/ FactVerification(c)
        \/ ContradictionStep(c)
        \/ UnsupportedStep(c)
        \/ Finish(c)
        \/ Preempt(c)
        \/ Resume(c)

SpecConcurrent == InitConcurrent /\ [][NextConcurrent]_vars

\* HallucinationDetector.detect(response, context, agent_function) run from
\* its first line to its last with no other call in between: what it returns
\* or raises.
detect(self, response, context, agent_function) ==
    IF ~IsStr(response) THEN Raises("AttributeError")
    ELSE IF /\ Truthy(agent_function)
            /\ self.num_samples > 0
            /\ ~IsDict(context) THEN Raises("AttributeError")
    ELSE
    LET aleatoric_uncertainty == calculate_aleatoric_uncertainty(response.val)
        uncertain == OverconfidenceRule(<<>>, ROne, aleatoric_uncertainty)
        consistency_result ==
            ConsistencyCheck(
                [i \in 1..self.num_samples |->
                    generate_sample(agent_function, context).val],
                self.consensus_threshold)
        consistent ==
            IF Truthy(agent_function)
            THEN InconsistencyRule(uncertain.types, uncertain.confidence,
                                   consistency_result.agreement_score,
                                   self.consensus_threshold)
            ELSE uncertain
        verification_results ==
            verify_claims(self.knowledge_base, response.val, context)
    IN  IF verification_results.kind = "raise" THEN verification_results
        ELSE
        LET contradicted ==
                ContradictionRule(consistent.types, consistent.confidence,
                                  verification_results.val)
            unsupported ==
                UnsupportedRule(contradicted.types, contradicted.confidence,
                                verification_results.val)
            found ==
                ("aleatoric_uncertainty" :> aleatoric_uncertainty)
                @@ ("fact_verification" :> verification_results.val)
                @@ (IF Truthy(agent_function)
                    THEN ("consistency_check" :>
                            [agreement_score |->
                                consistency_result.agreement_score,
                             divergent_points |->
                                consistency_result.divergent_points])
                    ELSE NoEvidence)
        IN  Returns(
                [is_hallucination |->
                    IsHallucination(unsupported.confidence,
                                    self.hallucination_threshold),
                 confidence_score |-> unsupported.confidence,
                 hallucination_types |-> unsupported.types,
                 evidence |-> found,
                 reasoning |-> generate_reasoning(unsupported.types, found,
                                                  unsupported.confidence),
                 mitigation_suggestions |->
                    generate_mitigation_suggestions(unsupported.types)])

\* C22: for any interleaving of concurrent detect calls on the same detector,
\* each call returns the same result it would return when run alone, and no
\* call changes any state of the detector, its checker, its verifier or its
\* quantifier.
C22_ConcurrentCallsIndependent ==
    [][/\ detector' = detector
       /\ \A c \in Calls :
            (pc'[c] \in {"done", "raised"} /\ pc[c] \notin {"done", "raised"})
            => outcome'[c] = detect(detector[detector_of[c]], args[c].response,
                                    args[c].context, args[c].agent_function)
      ]_vars

\* Two calls with different arguments under way at once, the one switched out
\* in its sampling loop with its confidence lowered, the other past its fact
\* verification.
C22_Witness ==
    /\ pc["c1"] = "sampling"
    /\ Len(samples["c1"]) = 1
    /\ RLt(confidence_score["c1"], ROne)
    /\ pc["c2"] = "contradiction"
    /\ running = "c2"
    /\ args["c1"] # args["c2"]

\* C23: no operation of the core (detect, with the check_consistency and the
\* verify_claims it runs) adds, removes or changes an entry of the knowledge
\* base or of the caller's context mapping: both are unchanged after any
\* sequence of calls.
C23_KnowledgeBaseAndContextReadOnly ==
    [][/\ \A d \in Detectors :
            detector'[d].knowledge_base = detector[d].knowledge_base
       /\ \A c \in Calls : args'[c].context = args[c].context
      ]_vars

\* Both calls have returned, one after a consistency check over its context
\* and with a claim verified from the knowledge base.
C23_Witness ==
    /\ \A c \in Calls : pc[c] = "done"
    /\ \E c \in Calls :
            /\ "consistency_check" \in DOMAIN outcome[c].val.evidence
            /\ \E i \in 1..outcome[c].val.evidence["fact_verification"].total_claims :
                    outcome[c].val.evidence["fact_verification"].claim_details[i].source
                        = "knowledge_base"
    /\ \A d \in Detectors : detector[d].knowledge_base = DigestKB

\* C24: whenever logical_contradiction is among the categories of a detect
\* result, that result's confidence_score is at most 0.5.
C24_ContradictionHalvesConfidence ==
    \A c \in Returned :
        Contains(outcome[c].val.hallucination_types, LOGICAL_CONTRADICTION)
            => RLeq(outcome[c].val.confidence_score, Rat(1, 2))

\* Scenario B: the response contradicted by the medical record, and no other
\* category, so that the score is exactly 0.5.
C24_Witness ==
    \E c \in Returned :
        /\ args[c].response = PyStr(Chars("Patient has no known allergies."))
        /\ args[c].context = PyDict(<<MedicalItem>>)
        /\ outcome[c].val.hallucination_types = <<LOGICAL_CONTRADICTION>>
        /\ outcome[c].val.confidence_score = Rat(1, 2)

\* The word occurs in the text with no letter or digit on either side of it.
WholeWord(word, text) ==
    LET Alphanumeric == SeqToSet(LowerCase) \cup SeqToSet(UpperCase)
                            \cup SeqToSet(Digits)
    IN  /\ Len(word) > 0
        /\ \E i \in 1..(Len(text) - Len(word) + 1) :
                /\ SubSeq(text, i, i + Len(word) - 1) = word
                /\ i > 1 => text[i - 1] \notin Alphanumeric
                /\ i + Len(word) <= Len(text)
                        => text[i + Len(word)] \notin Alphanumeric

\* Some text value of the context contains a negation word and, as a whole
\* word, one of the first three words of the claim.
NegatedByWholeWord(claim, context) ==
    LET words == Split(Lower(claim))
        leading == {words[k] : k \in {k \in 1..Len(words) : k <= 3}}
    IN  \E i \in 1..Len(context.val) :
            /\ IsStr(context.val[i][2])
            /\ \E m \in 1..Len(contradiction_markers) :
                    IsSub(contradiction_markers[m], Lower(context.val[i][2].val))
            /\ \E word \in leading : WholeWord(word, Lower(context.val[i][2].val))

\* C25: for a response with no hedging markers whose claims are not negated
\* by the context (no text context value contains both a negation word and,
\* as a whole word, one of the claim's first three words), detect without a
\* sampler returns is_hallucination false and confidence_score strictly
\* greater than 0.5.
C25_PlainResponseNotFlagged ==
    \A c \in Returned :
        (/\ args[c].agent_function = PyNone
         /\ \A tier \in {VeryHighTier, HighTier, MediumTier, LowTier} :
                Hedges(args[c].response.val, tier) = {}
         /\ \A claim \in SeqToSet(extract_factual_claims(args[c].response.val)) :
                ~NegatedByWholeWord(claim, args[c].context))
        => /\ ~outcome[c].val.is_hallucination
           /\ RLt(Rat(1, 2), outcome[c].val.confidence_score)

\* C26: for a single-claim response and a context in which some text value
\* shares at least two tokens with the claim, verify_claims returns
\* verified_claims > 0.
C26_ParaphraseVerified ==
    \A c \in ReturnedFrom("verify_claims") :
        LET claims == extract_factual_claims(args[c].text)
            values == args[c].context.val
        IN  (/\ Len(claims) = 1
             /\ \E i \in 1..Len(values) :
                    /\ IsStr(values[i][2])
                    /\ Cardinality(TokenSet(claims[1])
                                    \cap TokenSet(values[i][2].val)) >= 2)
            => outcome[c].val.verified_claims > 0

\* C28: for every response and context, the summary returned by verify_claims
\* satisfies total_claims = verified_claims + contradicted_claims +
\* unverified_claims = number of entries in claim_details, with one detail
\* entry per extracted claim in extraction order, each having exactly one of
\* the three statuses.
C28_SummaryCountsAddUp ==
    \A c \in ReturnedFrom("verify_claims") :
        LET summary == outcome[c].val
            claims == extract_factual_claims(args[c].text)
        IN  /\ summary.total_claims =
                    summary.verified_claims + summary.contradicted_claims
                    + summary.unverified_claims
            /\ summary.total_claims = Len(summary.claim_details)
            /\ Len(summary.claim_details) = Len(claims)
            /\ \A i \in 1..Len(claims) :
                    /\ summary.claim_details[i].claim = claims[i]
                    /\ summary.claim_details[i].status
                            \in {"verified", "contradicted", "unverified"}

\* A summary of two claims, one contradicted by the context and one neither
\* supported nor contradicted.
C28_Witness ==
    \E c \in ReturnedFrom("verify_claims") :
        /\ outcome[c].val.total_claims = 2
        /\ outcome[c].val.contradicted_claims = 1
        /\ outcome[c].val.unverified_claims = 1
        /\ outcome[c].val.claim_details[1].status = "unverified"

\* The fixed advisory of a category that has one.
Advisory(category) ==
    CASE category = OVERCONFIDENCE ->
            "Request agent to explicitly state uncertainty and provide confidence intervals"
      [] category = UNSUPPORTED_CLAIM ->
            "Ask agent to cite specific sources or evidence for claims"
      [] category = FACTUAL_INCONSISTENCY ->
            "Generate multiple responses and compare for consistency"
      [] category = LOGICAL_CONTRADICTION ->
            "Enable contradiction detection agent before finalizing response"

\* C27: every detect result has a non-empty mitigation_suggestions list: it
\* holds one fixed advisory per fired category (overconfidence,
\* unsupported_claim, factual_inconsistency, logical_contradiction) and holds
\* the single 'no mitigation needed' entry exactly when no category fired.
C27_MitigationPerCategory ==
    \A c \in Returned :
        LET fired == SeqToSet(outcome[c].val.hallucination_types)
            suggestions == outcome[c].val.mitigation_suggestions
        IN  /\ Len(suggestions) > 0
            /\ fired # {} =>
                    /\ SeqToSet(suggestions) = {Advisory(t) : t \in fired}
                    /\ Len(suggestions) = Cardinality(fired)
            /\ (suggestions = <<NoMitigation>>) <=> (fired = {})
            /\ Contains(suggestions, NoMitigation) <=> (fired = {})

\* A result in which all four categories fired, with their four advisories.
C27_Witness ==
    \E c \in Returned :
        /\ Len(outcome[c].val.hallucination_types) = 4
        /\ Len(outcome[c].val.mitigation_suggestions) = 4

\* C29: supplying a sampler never changes the verdict: for every response,
\* context, sampler and configuration with consensus_threshold <= 1, detect
\* with the sampler returns the same confidence_score, is_hallucination and
\* categories as detect without a sampler; the agreement_score recorded in
\* evidence is always 1.0, the divergent list is always empty, and
\* factual_inconsistency is never among the categories.
C29_SamplerNeverChangesVerdict ==
    \A c \in Calls :
        (/\ pc[c] \in {"done", "raised"}
         /\ IsStr(args[c].response)
         /\ IsDict(args[c].context)
         /\ Truthy(args[c].agent_function)
         /\ RLeq(Self(c).consensus_threshold, ROne))
        => LET unsampled == detect(Self(c), args[c].response, args[c].context,
                                   PyNone)
               sampled == outcome[c]
           IN  /\ sampled.kind = "return"
               /\ unsampled.kind = "return"
               /\ sampled.val.confidence_score = unsampled.val.confidence_score
               /\ sampled.val.is_hallucination = unsampled.val.is_hallucination
               /\ sampled.val.hallucination_types
                    = unsampled.val.hallucination_types
               /\ sampled.val.evidence["consistency_check"].agreement_score = ROne
               /\ sampled.val.evidence["consistency_check"].divergent_points = <<>>
               /\ ~Contains(sampled.val.hallucination_types, FACTUAL_INCONSISTENCY)

\* A call with a sampler under a detector that demands unanimity, returned
\* with a category fired and agreement 1.0.
C29_Witness ==
    \E c \in Returned :
        /\ Truthy(args[c].agent_function)
        /\ Self(c).consensus_threshold = ROne
        /\ Self(c).num_samples = MaxSamples
        /\ Len(outcome[c].val.hallucination_types) > 0
        /\ outcome[c].val.evidence["consistency_check"].agreement_score = ROne

\* C30: for every detect call with hallucination_threshold in [0,1] and
\* consensus_threshold in (0,1], confidence_score equals 1.0 exactly when no
\* category fired, so is_hallucination true implies the category list is
\* non-empty; the category list never contains duplicates and never contains
\* temporal_conflict or attribution_error.
C30_FullConfidenceIffNoCategory ==
    \A c \in Returned \cap ConsensusInRange :
        LET result == outcome[c].val
            types == result.hallucination_types
        IN  (/\ RLeq(RZero, Self(c).hallucination_threshold)
             /\ RLeq(Self(c).hallucination_threshold, ROne))
            => /\ (result.confidence_score = ROne) <=> (types = <<>>)
               /\ result.is_hallucination => types # <<>>
               /\ \A i, j \in 1..Len(types) : types[i] = types[j] => i = j
               /\ ~Contains(types, TEMPORAL_CONFLICT)
               /\ ~Contains(types, ATTRIBUTION_ERROR)
               /\ SeqToSet(types) \subseteq HallucinationType

\* A flagged result with two or more categories and a score below 1.0.
C30_Witness ==
    \E c \in Returned \cap ConsensusInRange :
        /\ outcome[c].val.is_hallucination
        /\ Len(outcome[c].val.hallucination_types) >= 2
        /\ RLt(outcome[c].val.confidence_score, ROne)

====
